---- MODULE Spec2Model ----
(***************************************************************************)
(* Model of the asynchronous novel caching orchestrator                    *)
(* (backend/app/services/novel_cache_service.py, backend/app/main.py).     *)
(*                                                                         *)
(* The service runs on one asyncio event loop.  Every action below is one  *)
(* maximal piece of code that runs without reaching an await that really   *)
(* suspends: the synchronous handlers create_cache_task and cancel_task,   *)
(* and the pieces of _cache_chapters between its suspension points         *)
(* (websocket.send_json inside _notify_progress_update, asyncio.sleep).    *)
(* crawler.get_chapter_list and crawler.get_chapter_content are blocking   *)
(* calls, so nothing interleaves with them.                                *)
(***************************************************************************)
EXTENDS Integers, Sequences, FiniteSets, TLC

\* ---------------------------------------------------------------- bounds
MaxTasks == 2

MaxChapters == 2

\* novel urls offered to create
Urls == {"u1"}

\* websocket objects; each connects at most once
Channels == {"w1"}

\* the tasks and websockets of the specification SpecWS
MaxTasksWS == 1

ChannelsWS == {"w1", "w2"}

\* the tasks of the specification SpecDb
MaxTasksDb == 1

\* which DatabaseSession blocks of one step of _cache_chapters raise: the one
\* of line 107 (start), of line 187 (handler), of line 196 (complete), of
\* line 209 (failed)
Faults == [start : BOOLEAN, handler : BOOLEAN, complete : BOOLEAN, failed : BOOLEAN]

\* the database answers every session
NoFaults == [start |-> FALSE, handler |-> FALSE, complete |-> FALSE, failed |-> FALSE]

TaskIds == 1..MaxTasks

\* what crawler.get_chapter_content does for one call
Outcomes == {"ok", "raise", "empty"}

\* what the with-block of line 140 does for one chapter when the database
\* may fail: as Outcomes, or the query of line 141 raises
OutcomesDb == Outcomes \cup {"db_error"}

\* what get_crawler_for_url / crawler.get_chapter_list do for one create: no
\* crawler for the url, the listing raises, or it returns a list of n chapters
ListOutcomes ==
  {[kind |-> "no_crawler", n |-> 0], [kind |-> "raises", n |-> 0]}
    \cup {[kind |-> "chapters", n |-> n] : n \in 0..MaxChapters}

Formats == {"json", "txt", "xml"}

\* how far the clock that stamps created_at has moved on since the task
\* created before: 0 is a creation within the resolution of the clock
Ticks == {0, 1}

\* the limits and offsets GET /api/cache/tasks is asked with (the endpoint
\* admits 1 <= limit <= 100 and offset >= 0)
MaxLimit == 2
MaxOffset == 3

\* the status parameter of GET /api/cache/tasks; "none" is its default None
StatusFilters == {"none", "pending", "running", "completed", "failed", "cancelled"}

Terminal == {"completed", "failed", "cancelled"}

\* ----------------------------------------------------------------- state
VARIABLES
  tasks,                  \* table novel_cache_tasks: row id -> CacheTask
  chapter_cache,          \* table novel_chapters_cache: set of committed rows
  active_tasks,           \* NovelCacheService.active_tasks (dict)
  websocket_connections,  \* NovelCacheService.websocket_connections (dict of lists)
  loops,                  \* the _cache_chapters coroutine of each task
  channel,                \* the websocket handler of each websocket
  attempts,               \* history: per task, what the loop did with chapter i
  cancel_log              \* history: per task, the state in which cancel first returned True

vars == <<tasks, chapter_cache, active_tasks, websocket_connections, loops,
          channel, attempts, cancel_log>>

\* the whole state as one value, so that a handler is a function on states;
\* db is the input of the step under way: the sessions that raise in it,
\* and tick the time that has passed since the task created before
State ==
  [tasks |-> tasks, chapter_cache |-> chapter_cache, active_tasks |-> active_tasks,
   websocket_connections |-> websocket_connections, loops |-> loops,
   channel |-> channel, attempts |-> attempts, cancel_log |-> cancel_log,
   db |-> NoFaults, tick |-> 1]

SetState(s) ==
  /\ tasks' = s.tasks
  /\ chapter_cache' = s.chapter_cache
  /\ active_tasks' = s.active_tasks
  /\ websocket_connections' = s.websocket_connections
  /\ loops' = s.loops
  /\ channel' = s.channel
  /\ attempts' = s.attempts
  /\ cancel_log' = s.cancel_log

\* ------------------------------------------------------------- dict, list
\* d[k] = v
Put(d, k, v) == [x \in (DOMAIN d) \cup {k} |-> IF x = k THEN v ELSE d[x]]

\* d.pop(k, None) / del d[k]
Pop(d, k) == [x \in (DOMAIN d) \ {k} |-> d[x]]

Range(q) == {q[x] : x \in DOMAIN q}

\* list.remove(w): drops the first occurrence (the caller checks membership)
ListRemove(q, w) ==
  LET p == CHOOSE x \in 1..Len(q) : q[x] = w /\ \A y \in 1..(x - 1) : q[y] # w
  IN  [x \in 1..(Len(q) - 1) |-> IF x < p THEN q[x] ELSE q[x + 1]]

\* ------------------------------------------------------------ the records
\* a new CacheTask row: status pending, counters at their column default 0
NewTask(url, n) ==
  [novel_url |-> url, status |-> "pending", total_chapters |-> n,
   cached_chapters |-> 0, failed_chapters |-> 0,
   completed_at |-> FALSE, error_message |-> FALSE, created_at |-> 0]

\* the clock when a task is created in state s: 1 at the first creation
Now(s) ==
  IF s.tasks = <<>> THEN 1 ELSE s.tasks[Len(s.tasks)].created_at + s.tick

\* the row db.add(cache_task) inserts: created_at is stamped by the clock
StampedTask(s, url, n) == [NewTask(url, n) EXCEPT !.created_at = Now(s)]

\* chapters[i]["url"] of the list get_chapter_list returned for novel url
ChapterUrl(url, i) == <<url, i>>

\* a ChapterCache row
NewChapter(t, url, i) ==
  [task_id |-> t, novel_url |-> url, chapter_url |-> ChapterUrl(url, i),
   chapter_index |-> i]

\* the fields of a progress message that the model keeps: main.py lines
\* 303-314 and novel_cache_service.py lines 243-254 build the same dict
Snapshot(status, cached, failed) ==
  [status |-> status, cached_chapters |-> cached, failed_chapters |-> failed]

\* no message
NoSnapshot == Snapshot("none", 0, 0)

\* history: the last send_json to the websocket raised
SendFailed == Snapshot("send_failed", 0, 0)

\* the coroutine _cache_chapters(task_id, chapters, novel_url) right after
\* asyncio.create_task: chapters is the list of n chapters, nothing has run.
\* Its locals (i, the open session's add, the notify's k, target,
\* disconnected, progress_data) are kept at these values while out of scope;
\* raised is history: the except of line 204 has caught an exception;
\* audience is history: the list of line 256 as it was when the for loop
\* of line 258 began
NewLoop(n) ==
  [pc |-> "scheduled", chapters |-> n, i |-> 0, add |-> FALSE,
   k |-> 0, target |-> "none", disconnected |-> <<>>, detached |-> FALSE,
   progress_data |-> NoSnapshot, raised |-> FALSE, audience |-> <<>>]

Init ==
  /\ tasks = <<>>
  /\ chapter_cache = {}
  /\ active_tasks = <<>>
  /\ websocket_connections = <<>>
  /\ loops = <<>>
  /\ channel = [w \in Channels |-> [state |-> "new", task_id |-> 0, last |-> NoSnapshot]]
  /\ attempts = [t \in TaskIds |-> <<>>]
  /\ cancel_log = [t \in TaskIds |-> "never"]

\* ------------------------------------------------------ create_cache_task
\* the query of lines 59-66 if it matched pending tasks only
ExistingTasks_PendingOnly(s, url) ==
  {t \in 1..Len(s.tasks) :
     s.tasks[t].novel_url = url /\ s.tasks[t].status = "pending"}

\* the rows the query of lines 59-66 matches
ExistingTasks(s, url) ==
  {t \in 1..Len(s.tasks) :
     s.tasks[t].novel_url = url /\ s.tasks[t].status \in {"pending", "running"}}

\* create_cache_task if it persisted the task before it asked the crawler
create_cache_task_PersistFirst(s, url, lo, e) ==
  IF e # 0
  THEN [s |-> s,
        ret |-> [ok |-> lo.kind = "chapters" /\ lo.n > 0, task |-> e,
                 status |-> s.tasks[e].status, total |-> s.tasks[e].total_chapters]]
  ELSE [s |-> [s EXCEPT !.tasks = Append(@, StampedTask(s, url, lo.n)),
                        !.loops = Append(@, NewLoop(lo.n))],
        ret |-> [ok |-> lo.kind = "chapters" /\ lo.n > 0, task |-> Len(s.tasks) + 1,
                 status |-> "pending", total |-> lo.n]]

\* create_cache_task(novel_url, db).  lo is what the crawler does; e is the
\* row .first() returns when the query matches (0 when none does).  The
\* result is the state after the call (s) and what the caller gets (ret): a
\* ValueError (ok = FALSE), or the task with the status and total_chapters
\* the endpoint of main.py lines 122-129 puts in its response
create_cache_task(s, url, lo, e) ==
  IF lo.kind # "chapters" \/ lo.n = 0
  THEN [s |-> s, ret |-> [ok |-> FALSE, task |-> 0, status |-> "none", total |-> 0]]
  ELSE IF e # 0
  THEN [s |-> s,
        ret |-> [ok |-> TRUE, task |-> e, status |-> s.tasks[e].status,
                 total |-> s.tasks[e].total_chapters]]
  ELSE [s |-> [s EXCEPT !.tasks = Append(@, StampedTask(s, url, lo.n)),
                        !.loops = Append(@, NewLoop(lo.n))],
        ret |-> [ok |-> TRUE, task |-> Len(s.tasks) + 1, status |-> "pending",
                 total |-> lo.n]]

\* ------------------------------------------------------------ cancel_task
\* the state in which a cancel returned True: the status it replaced, and
\* for running whether cached_chapters < total_chapters held ("running") or
\* not ("running_full")
CancelEntry(task) ==
  IF task.status = "pending" THEN "pending"
  ELSE IF task.cached_chapters < task.total_chapters THEN "running" ELSE "running_full"

\* cancel_task if it did not set the flag of line 323
cancel_task_NoFlag(s, t) ==
  IF t > Len(s.tasks)
  THEN [s |-> s, ret |-> FALSE]
  ELSE IF s.tasks[t].status \in {"pending", "running"}
  THEN [s |-> [s EXCEPT !.tasks[t].status = "cancelled",
                        !.cancel_log[t] =
                           IF @ = "never" THEN CancelEntry(s.tasks[t]) ELSE @],
        ret |-> TRUE]
  ELSE [s |-> s, ret |-> FALSE]

\* cancel_task if it did not look at the status (line 316)
cancel_task_AnyStatus(s, t) ==
  IF t > Len(s.tasks)
  THEN [s |-> s, ret |-> FALSE]
  ELSE [s |-> [s EXCEPT !.tasks[t].status = "cancelled",
                        !.active_tasks = Put(@, t, "cancelled"),
                        !.cancel_log[t] =
                           IF @ = "never" THEN CancelEntry(s.tasks[t]) ELSE @],
        ret |-> TRUE]

cancel_task(s, t) ==
  IF t > Len(s.tasks)
  THEN [s |-> s, ret |-> FALSE]
  ELSE IF s.tasks[t].status \in {"pending", "running"}
  THEN [s |-> [s EXCEPT !.tasks[t].status = "cancelled",
                        !.active_tasks = Put(@, t, "cancelled"),
                        !.cancel_log[t] =
                           IF @ = "never" THEN CancelEntry(s.tasks[t]) ELSE @],
        ret |-> TRUE]
  ELSE [s |-> s, ret |-> FALSE]

\* ------------------------------------------------ _notify_progress_update
\* lines 266-267: for ws in disconnected_websockets: list.remove(ws).  A
\* KeyError (the task's entry was deleted) or ValueError (ws already removed)
\* leaves the loop and is swallowed by the except of line 269
RECURSIVE prune(_, _, _)
prune(conns, t, disc) ==
  IF disc = <<>> THEN conns
  ELSE IF t \notin DOMAIN conns THEN conns
  ELSE IF Head(disc) \notin Range(conns[t]) THEN conns
  ELSE prune([conns EXCEPT ![t] = ListRemove(@, Head(disc))], t, Tail(disc))

\* the with-block of line 140 ends without exception: DatabaseSession.__exit__
\* commits the added row and cached_chapters = i + 1
commit_chapter(s, t) ==
  LET l == s.loops[t]
  IN  [s EXCEPT !.chapter_cache =
                   IF l.add THEN @ \cup {NewChapter(t, s.tasks[t].novel_url, l.i)} ELSE @,
                !.tasks[t].cached_chapters = l.i + 1,
                !.loops[t].add = FALSE]

\* what follows the return of _notify_progress_update: after the call of line
\* 178 the commit and asyncio.sleep(1); after the call of line 221 the end
after_notify(s, t, final) ==
  IF final
  THEN [s EXCEPT !.loops[t] = [NewLoop(@.chapters) EXCEPT
                                  !.pc = "done", !.raised = s.loops[t].raised]]
  ELSE [commit_chapter(s, t) EXCEPT !.loops[t].pc = "sleep"]

\* _notify_progress_update(task_id, db) up to its first send_json.  task is
\* the row as the caller's session sees it: with the uncommitted
\* cached_chapters for the call of line 178, as committed for line 221
notify_progress_update(s, t, final) ==
  IF t \notin DOMAIN s.websocket_connections
  THEN after_notify(s, t, final)
  ELSE LET conns == s.websocket_connections[t]
           data == Snapshot(s.tasks[t].status,
                            IF final THEN s.tasks[t].cached_chapters ELSE s.loops[t].i + 1,
                            s.tasks[t].failed_chapters)
       IN  IF conns = <<>>
           THEN after_notify(s, t, final)
           ELSE [s EXCEPT !.loops[t].pc = IF final THEN "final_notify" ELSE "notify",
                          !.loops[t].progress_data = data,
                          !.loops[t].k = 1,
                          !.loops[t].target = conns[1],
                          !.loops[t].disconnected = <<>>,
                          !.loops[t].detached = FALSE,
                          !.loops[t].audience = conns]

\* websocket.send_json(data) returns: the message is on its way to the
\* client of w (nothing is kept for a websocket whose handler has ended)
send_json(s, w, data) ==
  IF s.channel[w].state = "open" THEN [s EXCEPT !.channel[w].last = data] ELSE s

\* websocket.send_json(data) raises (lines 261-263)
send_json_raises(s, w) == send_json(s, w, SendFailed)

\* the send_json in flight returns (sent = TRUE) or raises; the for loop of
\* line 258 goes on with the next element of the list object it iterates,
\* which is empty once remove_websocket_connection has deleted the entry
notify_resume(s, t, sent) ==
  LET l == s.loops[t]
      final == l.pc = "final_notify"
      disc == IF sent THEN l.disconnected ELSE Append(l.disconnected, l.target)
      conns == IF l.detached \/ t \notin DOMAIN s.websocket_connections
               THEN <<>> ELSE s.websocket_connections[t]
      s1 == IF sent THEN send_json(s, l.target, l.progress_data)
            ELSE send_json_raises(s, l.target)
  IN  IF l.k + 1 <= Len(conns)
      THEN [s1 EXCEPT !.loops[t].k = l.k + 1,
                     !.loops[t].target = conns[l.k + 1],
                     !.loops[t].disconnected = disc]
      ELSE after_notify(
             [s1 EXCEPT !.websocket_connections = prune(@, t, disc),
                       !.loops[t].k = 0,
                       !.loops[t].target = "none",
                       !.loops[t].disconnected = <<>>,
                       !.loops[t].detached = FALSE,
                       !.loops[t].audience = <<>>,
                       !.loops[t].progress_data = NewLoop(0).progress_data], t, final)

\* --------------------------------------------------------- _cache_chapters
\* lines 218-221, the finally block
finally_block(s, t) ==
  notify_progress_update([s EXCEPT !.active_tasks = Pop(@, t)], t, TRUE)

\* lines 195-202 if the status were not written
mark_completed_NoStatus(s, t) ==
  finally_block(s, t)

\* lines 204-216, the outer except: mark the task failed; if this session
\* raises too the error is logged (line 216) and the row is left as it is
task_failed(s, t) ==
  IF s.db.failed
  THEN finally_block([s EXCEPT !.loops[t].raised = TRUE], t)
  ELSE finally_block([s EXCEPT !.tasks[t].status = "failed",
                               !.tasks[t].error_message = TRUE,
                               !.loops[t].raised = TRUE], t)

\* lines 195-202, reached when the for loop ends or breaks
mark_completed(s, t) ==
  IF s.db.complete
  THEN task_failed(s, t)
  ELSE finally_block([s EXCEPT !.tasks[t].status = "completed",
                               !.tasks[t].completed_at = TRUE], t)

\* the query of lines 141-145 if it looked at the rows of this task only
existing_chapter_OwnTask(s, t, i) ==
  \E c \in s.chapter_cache :
     c.task_id = t /\ c.chapter_url = ChapterUrl(s.tasks[t].novel_url, i)

\* lines 141-145: the query for a cached row of this chapter
existing_chapter(s, t, i) ==
  \E c \in s.chapter_cache : c.chapter_url = ChapterUrl(s.tasks[t].novel_url, i)

\* a row with the dedup key (novel url, chapter url) of chapter i is stored
DedupKeyStored(s, t, i) ==
  \E c \in s.chapter_cache :
     /\ c.novel_url = s.tasks[t].novel_url
     /\ c.chapter_url = ChapterUrl(s.tasks[t].novel_url, i)

\* a channel registered for task t has been sent counters, and they are not
\* the ones the Task Store holds now
Stale(s, t) ==
  /\ t \in DOMAIN s.websocket_connections
  /\ \E w \in Range(s.websocket_connections[t]) :
       /\ s.channel[w].last \notin {NoSnapshot, SendFailed}
       /\ \/ s.channel[w].last.cached_chapters # s.tasks[t].cached_chapters
          \/ s.channel[w].last.failed_chapters # s.tasks[t].failed_chapters

\* history: the loop of task t handles chapter i in the way kind (lines
\* 138-193), with what held when it began to
Attempt(s, t, i, kind) ==
  [s EXCEPT !.attempts[t] =
     Append(@, [kind |-> kind, existed |-> DedupKeyStored(s, t, i), stale |-> Stale(s, t)])]

\* lines 183-193 if the handler did not count the failure
record_failure_NoCount(s, t) ==
  [s EXCEPT !.loops[t].add = FALSE]

\* lines 183-193 if the rollback took the task's committed progress with it
record_failure_Rollback(s, t) ==
  [s EXCEPT !.tasks[t].failed_chapters = @ + 1, !.tasks[t].cached_chapters = 0,
            !.loops[t].add = FALSE]

\* lines 183-193: the session of line 140 is rolled back, failed_chapters
\* is incremented in a session of its own, the loop continues
record_failure(s, t) ==
  [s EXCEPT !.tasks[t].failed_chapters = @ + 1, !.loops[t].add = FALSE]

\* lines 170-178: cached_chapters = i + 1 in the open session, then notify
update_progress(s, t, i, add) ==
  notify_progress_update([s EXCEPT !.loops[t].i = i, !.loops[t].add = add], t, FALSE)

\* lines 153-156 if a chapter without content counted as a failed chapter
empty_content_Counted(s, t, i) ==
  record_failure(Attempt(s, t, i, "empty"), t)

\* lines 153-156: the content is empty: a warning and continue; the session
\* of line 140 ends with nothing to commit
empty_content(s, t, i) ==
  Attempt(s, t, i, "empty")

\* lines 124-193: the for loop from chapter i on, up to the next suspension.
\* outs[j] is what get_chapter_content does if it is called for chapter j
RECURSIVE chapter_loop(_, _, _, _)
chapter_loop(s, t, i, outs) ==
  IF i >= s.loops[t].chapters
  THEN mark_completed(s, t)
  ELSE IF t \notin DOMAIN s.active_tasks \/ s.active_tasks[t] = "cancelled"
  THEN mark_completed(s, t)
  ELSE IF outs[i] = "db_error"
  THEN IF s.db.handler
       THEN task_failed(Attempt(s, t, i, "db_error"), t)
       ELSE chapter_loop(record_failure(Attempt(s, t, i, "db_error"), t), t, i + 1, outs)
  ELSE IF existing_chapter(s, t, i)
  THEN update_progress(Attempt(s, t, i, "skip"), t, i, FALSE)
  ELSE IF outs[i] = "raise"
  THEN IF s.db.handler
       THEN task_failed(Attempt(s, t, i, "raise"), t)
       ELSE chapter_loop(record_failure(Attempt(s, t, i, "raise"), t), t, i + 1, outs)
  ELSE IF outs[i] = "empty"
  THEN chapter_loop(empty_content(s, t, i), t, i + 1, outs)
  ELSE update_progress(Attempt(s, t, i, "ok"), t, i, TRUE)

\* lines 102-123: the coroutine starts
cache_chapters(s, t, outs) ==
  IF s.db.start
  THEN task_failed([s EXCEPT !.active_tasks = Put(@, t, "running")], t)
  ELSE chapter_loop([s EXCEPT !.active_tasks = Put(@, t, "running"),
                              !.tasks[t].status = "running"], t, 0, outs)

\* asyncio.sleep(1) of line 181 returns: next iteration
sleep_resume(s, t, outs) ==
  chapter_loop(s, t, s.loops[t].i + 1, outs)

\* ------------------------------------------------------ websocket handler
\* add_websocket_connection, lines 330-334
add_websocket_connection(conns, t, w) ==
  IF t \notin DOMAIN conns THEN Put(conns, t, <<w>>)
  ELSE [conns EXCEPT ![t] = Append(@, w)]

\* remove_websocket_connection, lines 336-344
remove_websocket_connection(conns, t, w) ==
  IF t \notin DOMAIN conns THEN conns
  ELSE IF w \notin Range(conns[t]) THEN conns
  ELSE IF ListRemove(conns[t], w) = <<>> THEN Pop(conns, t)
  ELSE [conns EXCEPT ![t] = ListRemove(@, w)]

\* get_task_status, lines 272-274: the committed row, None (0) if there is none
get_task_status(s, t) == IF t <= Len(s.tasks) THEN t ELSE 0

\* cache_progress_websocket if it registered the websocket and sent nothing
subscribe_NoSnapshot(s, w, t, sent) ==
  [s EXCEPT !.websocket_connections = add_websocket_connection(@, t, w),
            !.channel[w] = [state |-> "open", task_id |-> t, last |-> NoSnapshot]]

\* cache_progress_websocket, main.py lines 286-315: register, then send the
\* current state of the task if there is such a task.  The send returns
\* (sent = TRUE) or raises, and a handler whose send raised goes on to its
\* finally block the next time it runs
subscribe(s, w, t, sent) ==
  LET s1 == [s EXCEPT !.websocket_connections = add_websocket_connection(@, t, w),
                      !.channel[w] = [state |-> "open", task_id |-> t, last |-> NoSnapshot]]
      task == get_task_status(s1, t)
  IN  IF task # 0 /\ sent
      THEN send_json(s1, w, Snapshot(s1.tasks[task].status, s1.tasks[task].cached_chapters,
                                     s1.tasks[task].failed_chapters))
      ELSE s1

\* cache_progress_websocket, main.py lines 319-332: the client disconnects.
\* A notify that iterates the list of this task keeps the list object, which
\* is left empty when the entry is deleted
unsubscribe(s, w) ==
  LET t == s.channel[w].task_id
      conns == remove_websocket_connection(s.websocket_connections, t, w)
      deleted == t \in DOMAIN s.websocket_connections /\ t \notin DOMAIN conns
  IN  [s EXCEPT !.websocket_connections = conns,
                !.channel[w] = [state |-> "gone", task_id |-> 0, last |-> NoSnapshot],
                !.loops = [x \in DOMAIN @ |->
                             IF x = t /\ deleted /\ @[x].pc \in {"notify", "final_notify"}
                             THEN [@[x] EXCEPT !.detached = TRUE] ELSE @[x]]]

\* ------------------------------------------------- download_cached_novel
\* the rows by chapter_index descending
RECURSIVE SortByIndex_Desc(_)
SortByIndex_Desc(rows) ==
  IF rows = {} THEN <<>>
  ELSE LET r == CHOOSE x \in rows : \A y \in rows : x.chapter_index >= y.chapter_index
       IN  <<r>> \o SortByIndex_Desc(rows \ {r})

\* get_cached_chapters, lines 299-308: the task's rows by chapter_index
RECURSIVE SortByIndex(_)
SortByIndex(rows) ==
  IF rows = {} THEN <<>>
  ELSE LET r == CHOOSE x \in rows : \A y \in rows : x.chapter_index <= y.chapter_index
       IN  <<r>> \o SortByIndex(rows \ {r})

get_cached_chapters(s, t) ==
  SortByIndex({c \in s.chapter_cache : c.task_id = t})

\* the download if it exported the chapters of any task it finds
download_cached_novel_AnyStatus(s, t, fmt) ==
  IF t > Len(s.tasks)
  THEN [code |-> 404, chapters |-> <<>>]
  ELSE IF fmt \in {"json", "txt"}
  THEN [code |-> 200,
        chapters |-> [x \in 1..Len(get_cached_chapters(s, t)) |->
                        get_cached_chapters(s, t)[x].chapter_index]]
  ELSE [code |-> 400, chapters |-> <<>>]

\* main.py lines 227-280: the HTTP status and, for an export, the
\* chapter_index of each exported chapter in the order of the export
download_cached_novel(s, t, fmt) ==
  IF t > Len(s.tasks) \/ s.tasks[t].status # "completed"
  THEN [code |-> 404, chapters |-> <<>>]
  ELSE IF fmt \in {"json", "txt"}
  THEN [code |-> 200,
        chapters |-> [x \in 1..Len(get_cached_chapters(s, t)) |->
                        get_cached_chapters(s, t)[x].chapter_index]]
  ELSE [code |-> 400, chapters |-> <<>>]

\* --------------------------------------------------------- get_cache_tasks
\* the rows the query of lines 283-290 matches: all of them without a status
Matching(s, status) ==
  {t \in 1..Len(s.tasks) : status = "none" \/ s.tasks[t].status = status}

\* the orders in which ORDER BY created_at DESC can hand out rows: the
\* statement names no second key, so rows with the same created_at come in
\* an order the database picks for each query
OrderBys(s, rows) ==
  {q \in [1..Cardinality(rows) -> rows] :
     /\ Range(q) = rows
     /\ \A a, b \in DOMAIN q :
          a < b => s.tasks[q[a]].created_at >= s.tasks[q[b]].created_at}

Min(a, b) == IF a <= b THEN a ELSE b

\* get_cache_tasks(status, limit, offset, db) when the database hands out
\* the matching rows in the given order: .offset(offset).limit(limit).all()
get_cache_tasks(s, status, limit, offset, order) ==
  SubSeq(order, offset + 1, Min(offset + limit, Len(order)))

\* GET /api/cache/tasks: the tasks of the page and "total": len(tasks)
api_get_cache_tasks(s, status, limit, offset, order) ==
  [tasks |-> get_cache_tasks(s, status, limit, offset, order),
   total |-> Len(get_cache_tasks(s, status, limit, offset, order))]

\* ---------------------------------------------------------------- actions
\* .first() of a query without ORDER BY: any matching row, None (0) if none
first(rows) == IF rows = {} THEN {0} ELSE rows

\* every result create_cache_task can have in state s
create_results(s, url, lo) ==
  {create_cache_task(s, url, lo, e) : e \in first(ExistingTasks(s, url))}

\* POST /api/cache/create, while the Task Store has fewer than max tasks,
\* with the clock moved on by one of ticks since the creation before
CreateIn(max, ticks) ==
  \E url \in Urls, lo \in ListOutcomes, k \in ticks :
    \E r \in create_results([State EXCEPT !.tick = k], url, lo) :
      /\ Len(r.s.tasks) <= max
      /\ SetState(r.s)

CreateN(max) == CreateIn(max, {1})

Create == CreateN(MaxTasks)

Cancel ==
  \E t \in TaskIds :
    /\ cancel_task(State, t).ret \in BOOLEAN
    /\ SetState(cancel_task(State, t).s)

\* the event loop runs the coroutine asyncio.create_task scheduled; the
\* crawler and the database behave in one of the given ways
LoopStartIn(t, outcomes, faults) ==
  /\ t <= Len(tasks)
  /\ loops[t].pc = "scheduled"
  /\ \E outs \in [0..(MaxChapters - 1) -> outcomes], f \in faults :
       SetState(cache_chapters([State EXCEPT !.db = f], t, outs))

SleepResumeIn(t, outcomes, faults) ==
  /\ t <= Len(tasks)
  /\ loops[t].pc = "sleep"
  /\ \E outs \in [0..(MaxChapters - 1) -> outcomes], f \in faults :
       SetState(sleep_resume([State EXCEPT !.db = f], t, outs))

LoopStart(t) == LoopStartIn(t, Outcomes, {NoFaults})

SleepResume(t) == SleepResumeIn(t, Outcomes, {NoFaults})

NotifyResume(t) ==
  /\ t <= Len(tasks)
  /\ loops[t].pc \in {"notify", "final_notify"}
  /\ \E sent \in BOOLEAN : SetState(notify_resume(State, t, sent))

Subscribe ==
  \E w \in DOMAIN channel, t \in TaskIds :
    /\ channel[w].state = "new"
    /\ \E sent \in BOOLEAN : SetState(subscribe(State, w, t, sent))

Unsubscribe ==
  \E w \in DOMAIN channel :
    /\ channel[w].state = "open"
    /\ SetState(unsubscribe(State, w))

\* one step of the coroutine of task t
LoopStep(t) == LoopStart(t) \/ SleepResume(t) \/ NotifyResume(t)

Next ==
  \/ Create
  \/ Cancel
  \/ \E t \in TaskIds : LoopStart(t)
  \/ \E t \in TaskIds : SleepResume(t)
  \/ \E t \in TaskIds : NotifyResume(t)
  \/ Subscribe
  \/ Unsubscribe

Spec == Init /\ [][Next]_vars

\* The same service with more observers: MaxTasksWS tasks, the websockets
\* ChannelsWS
InitWS ==
  /\ tasks = <<>>
  /\ chapter_cache = {}
  /\ active_tasks = <<>>
  /\ websocket_connections = <<>>
  /\ loops = <<>>
  /\ channel = [w \in ChannelsWS |-> [state |-> "new", task_id |-> 0, last |-> NoSnapshot]]
  /\ attempts = [t \in TaskIds |-> <<>>]
  /\ cancel_log = [t \in TaskIds |-> "never"]

CreateWS == CreateN(MaxTasksWS)

NextWS ==
  \/ CreateWS
  \/ Cancel
  \/ \E t \in TaskIds : LoopStart(t)
  \/ \E t \in TaskIds : SleepResume(t)
  \/ \E t \in TaskIds : NotifyResume(t)
  \/ Subscribe
  \/ Unsubscribe

SpecWS == InitWS /\ [][NextWS]_vars

\* The same service with a database that can fail in the sessions of the loop
LoopStartDb(t) == LoopStartIn(t, OutcomesDb, Faults)

SleepResumeDb(t) == SleepResumeIn(t, OutcomesDb, Faults)

CreateDb == CreateN(MaxTasksDb)

NextDb ==
  \/ CreateDb
  \/ Cancel
  \/ \E t \in TaskIds : LoopStartDb(t)
  \/ \E t \in TaskIds : SleepResumeDb(t)
  \/ \E t \in TaskIds : NotifyResume(t)
  \/ Subscribe
  \/ Unsubscribe

SpecDb == Init /\ [][NextDb]_vars

\* The same service with a clock that can stamp two tasks with the same
\* created_at
CreateList == CreateIn(MaxTasks, Ticks)

NextList ==
  \/ CreateList
  \/ Cancel
  \/ \E t \in TaskIds : LoopStart(t)
  \/ \E t \in TaskIds : SleepResume(t)
  \/ \E t \in TaskIds : NotifyResume(t)
  \/ Subscribe
  \/ Unsubscribe

SpecList == Init /\ [][NextList]_vars

\* the event loop runs every coroutine that is ready: a scheduled loop
\* starts, a sleep ends, a send returns or raises
FairSpec == Spec /\ \A t \in TaskIds : WF_vars(LoopStep(t))

\* ================================================================ claims
Created == 1..Len(tasks)

\* the loop of task t has left the for loop and run lines 195-219
Exited(t) == loops[t].pc \in {"final_notify", "done"}

\* the tasks of url that are pending or running, read off the Task Store
ActiveFor(url) ==
  {t \in Created : tasks[t].novel_url = url /\ tasks[t].status \in {"pending", "running"}}

\* how many chapters the loop of task t has handled in one of the given ways
CountKind(t, kinds) ==
  Cardinality({j \in 1..Len(attempts[t]) : attempts[t][j].kind \in kinds})

\* C1: if cancel returned true for a task whose loop was running with
\* cached_chapters < total_chapters, then once the loop has exited the
\* persisted status is cancelled (and is not overwritten by completed or failed)
C1_CancelledAfterExit ==
  \A t \in Created :
    (cancel_log[t] = "running" /\ Exited(t)) => tasks[t].status = "cancelled"

\* C2: the status of a task changes only along pending -> running ->
\* {completed, failed, cancelled} or pending -> cancelled, and a terminal
\* status never changes
AllowedTransitions ==
  {<<"pending", "running">>, <<"pending", "cancelled">>, <<"running", "completed">>,
   <<"running", "failed">>, <<"running", "cancelled">>}

C2_StatusTransitions ==
  [][\A t \in Created :
       \/ tasks'[t].status = tasks[t].status
       \/ <<tasks[t].status, tasks'[t].status>> \in AllowedTransitions]_vars

\* C3: in every reachable state of every task,
\* cached_chapters + failed_chapters <= total_chapters
C3_CountersWithinTotal ==
  \A t \in Created :
    tasks[t].cached_chapters + tasks[t].failed_chapters <= tasks[t].total_chapters

\* C4: after a task completes without cancellation, cached_chapters is the
\* number of its chapters stored by this run or skipped as already cached,
\* and failed_chapters the number of fetches that raised
C4_CachedCountsStoredOrSkipped ==
  \A t \in Created :
    (loops[t].pc = "done" /\ cancel_log[t] = "never") =>
      /\ tasks[t].cached_chapters = CountKind(t, {"ok", "skip"})
      /\ tasks[t].failed_chapters = CountKind(t, {"raise"})

\* C5: failed_chapters is the number of fetches that raised, and when the
\* loop of a task that was never cancelled has exited, every chapter of its
\* list was attempted (fetched or skipped), those after a raise included
C5_FailureIsolation ==
  \A t \in Created :
    /\ tasks[t].failed_chapters = CountKind(t, {"raise"})
    /\ (Exited(t) /\ cancel_log[t] = "never") => Len(attempts[t]) = loops[t].chapters

C5_Witness ==
  \E t \in Created :
    /\ loops[t].pc = "done"
    /\ cancel_log[t] = "never"
    /\ Len(attempts[t]) = 2
    /\ attempts[t][1].kind = "raise"
    /\ attempts[t][2].kind = "ok"
    /\ tasks[t].failed_chapters = 1

C7_IdempotentCreate ==
  \A url \in Urls, lo \in ListOutcomes :
    (ActiveFor(url) # {} /\ lo.kind = "chapters" /\ lo.n > 0) =>
      \A r \in create_results(State, url, lo) :
        /\ r.ret.ok
        /\ r.ret.task \in ActiveFor(url)
        /\ r.s = State
        /\ \A r2 \in create_results(r.s, url, lo) : r2.s = State

C7_Witness ==
  \E url \in Urls :
    /\ \E t \in ActiveFor(url) : tasks[t].status = "running" /\ loops[t].pc = "sleep"
    /\ \E lo \in ListOutcomes : \E r \in create_results(State, url, lo) :
         r.ret.ok /\ r.ret.task \in ActiveFor(url) /\ r.ret.status = "running"

\* C8: a create that fails (no crawler for the url, the listing raises, the
\* list is empty) persists no task, schedules no loop and leaves both
\* registries as they are
C8_FailedCreateNoEffect ==
  \A url \in Urls, lo \in ListOutcomes :
    (lo.kind # "chapters" \/ lo.n = 0) =>
      \A r \in create_results(State, url, lo) :
        /\ ~r.ret.ok
        /\ r.s.tasks = tasks
        /\ r.s.chapter_cache = chapter_cache
        /\ r.s.loops = loops
        /\ r.s.active_tasks = active_tasks
        /\ r.s.websocket_connections = websocket_connections

C8_Witness ==
  /\ tasks # <<>>
  /\ DOMAIN active_tasks # {}
  /\ DOMAIN websocket_connections # {}
  /\ \E url \in Urls, lo \in ListOutcomes : \E r \in create_results(State, url, lo) :
       lo.kind = "chapters" /\ lo.n = 0 /\ ~r.ret.ok

\* C9: with no cancel, a new task is returned as pending with total_chapters
\* = n, and has both counters 0 before its loop runs; when all n chapters
\* were fetched successfully the loop ends with status completed,
\* cached_chapters = n, failed_chapters = 0, and the json download has
\* exactly the chapters 0..n-1 in ascending order
AllFetched(t) ==
  /\ Len(attempts[t]) = loops[t].chapters
  /\ \A j \in 1..Len(attempts[t]) : attempts[t][j].kind = "ok"

C9_ScenarioA ==
  /\ \A url \in Urls, lo \in ListOutcomes :
       (ActiveFor(url) = {} /\ lo.kind = "chapters" /\ lo.n > 0) =>
         \A r \in create_results(State, url, lo) :
           /\ r.ret = [ok |-> TRUE, task |-> Len(tasks) + 1, status |-> "pending",
                       total |-> lo.n]
           /\ r.s.tasks[r.ret.task].cached_chapters = 0
           /\ r.s.tasks[r.ret.task].failed_chapters = 0
  /\ \A t \in Created :
       cancel_log[t] = "never" =>
         /\ loops[t].pc = "scheduled" =>
              /\ tasks[t].status = "pending"
              /\ tasks[t].total_chapters = loops[t].chapters
              /\ tasks[t].cached_chapters = 0 /\ tasks[t].failed_chapters = 0
              /\ attempts[t] = <<>>
         /\ (loops[t].pc = "done" /\ AllFetched(t)) =>
              /\ tasks[t].status = "completed"
              /\ tasks[t].cached_chapters = loops[t].chapters
              /\ tasks[t].failed_chapters = 0
              /\ download_cached_novel(State, t, "json") =
                   [code |-> 200, chapters |-> [x \in 1..loops[t].chapters |-> x - 1]]

C9_Witness ==
  \E t \in Created :
    /\ cancel_log[t] = "never"
    /\ loops[t].pc = "done"
    /\ loops[t].chapters = 2
    /\ AllFetched(t)
    /\ download_cached_novel(State, t, "json").chapters = <<0, 1>>

\* C10: the loop never calls get_chapter_content for a chapter whose dedup
\* key has a row when the loop reaches it; it skips the chapter and counts
\* it in cached_chapters (with the commit that ends the iteration)
C10_NoRefetch ==
  \A t \in Created : \A j \in 1..Len(attempts[t]) :
    /\ attempts[t][j].existed => attempts[t][j].kind = "skip"
    /\ attempts[t][j].kind = "skip" =>
         \/ tasks[t].cached_chapters >= j
         \/ loops[t].pc = "notify" /\ loops[t].i = j - 1

C10_Witness ==
  \E t \in Created : \E j \in 1..Len(attempts[t]) :
    /\ attempts[t][j].existed
    /\ attempts[t][j].kind = "skip"
    /\ tasks[t].cached_chapters = j
    /\ \E c \in chapter_cache : c.task_id # t /\ c.chapter_index = j - 1

\* C11: the Chapter Store never holds two rows with the same dedup key
\* (novel url, chapter url)
C11_OneRowPerDedupKey ==
  \A c1 \in chapter_cache : \A c2 \in chapter_cache :
    (c1.novel_url = c2.novel_url /\ c1.chapter_url = c2.chapter_url) => c1 = c2

\* cancel has returned True for task t while its loop was running
CancelledRunning(t) ==
  \/ cancel_log[t] \in {"running", "running_full"}
  \/ /\ t \in DOMAIN active_tasks
     /\ active_tasks[t] = "cancelled"
     /\ loops[t].pc # "scheduled"

\* the rows of task t in the Chapter Store
RowsOf(t) == {c \in chapter_cache : c.task_id = t}

\* C12: once cancel has returned True for a running task the loop begins no
\* chapter: nothing more is attempted, no failure is counted, and the only
\* chapter stored or counted is the one whose progress message was being
\* sent when the cancel came
C12_NoFetchAfterCancel ==
  [][\A t \in Created :
       CancelledRunning(t) =>
         /\ attempts'[t] = attempts[t]
         /\ tasks'[t].failed_chapters = tasks[t].failed_chapters
         /\ \/ /\ tasks'[t].cached_chapters = tasks[t].cached_chapters
               /\ RowsOf(t)' = RowsOf(t)
            \/ /\ loops[t].pc = "notify"
               /\ tasks'[t].cached_chapters = loops[t].i + 1
               /\ RowsOf(t)' \subseteq
                    RowsOf(t) \cup {NewChapter(t, tasks[t].novel_url, loops[t].i)}]_vars

C12_Witness ==
  \E t \in Created :
    /\ cancel_log[t] = "running"
    /\ loops[t].pc = "done"
    /\ Len(attempts[t]) = 1
    /\ loops[t].chapters = 2
    /\ tasks[t].cached_chapters = 1

\* C13: a cancel of a pending task takes effect: the loop fetches no chapter
\* and, once it has run, the status is still cancelled
C13_PendingCancelTakesEffect ==
  \A t \in Created :
    cancel_log[t] = "pending" =>
      /\ attempts[t] = <<>>
      /\ loops[t].pc # "scheduled" => tasks[t].status = "cancelled"

C15_CountersMonotone ==
  [][\A t \in Created :
       tasks[t].status = "running" =>
         /\ tasks'[t].cached_chapters >= tasks[t].cached_chapters
         /\ tasks'[t].failed_chapters >= tasks[t].failed_chapters]_vars

C15_Witness ==
  \E t \in Created :
    /\ tasks[t].status = "running"
    /\ tasks[t].cached_chapters = 2
    /\ tasks[t].failed_chapters = 1

\* C16: a websocket that connects for an existing task has been sent nothing
\* before, and the handler itself sends it the state of the task as the Task
\* Store holds it at that moment, before any step of the loop
C16_FirstSnapshotIsCurrent ==
  \A w \in DOMAIN channel :
    channel[w].state = "new" =>
      /\ channel[w].last = NoSnapshot
      /\ \A t \in DOMAIN websocket_connections : w \notin Range(websocket_connections[t])
      /\ \A t \in Created :
           subscribe(State, w, t, TRUE).channel[w].last =
             Snapshot(tasks[t].status, tasks[t].cached_chapters, tasks[t].failed_chapters)

C16_Witness ==
  \E w \in DOMAIN channel : \E t \in Created :
    /\ channel[w].state = "open"
    /\ channel[w].task_id = t
    /\ tasks[t].total_chapters = 2
    /\ loops[t].pc = "sleep"
    /\ channel[w].last = Snapshot("cancelled", 1, 0)

\* websocket w is registered for task t
Registered(w, t) ==
  t \in DOMAIN websocket_connections /\ w \in Range(websocket_connections[t])

\* C17: a channel that is open for a task when the loop, at its end, sends it
\* the last message is eventually closed or no longer registered for the task
C17_ChannelClosedAtTerminal ==
  \A w \in Channels : \A t \in TaskIds :
    (t \in Created /\ loops[t].pc = "final_notify" /\ loops[t].target = w
       /\ channel[w].state = "open" /\ channel[w].task_id = t)
      ~> ~(channel[w].state = "open" /\ Registered(w, t))

\* C18: when the loop begins a chapter, every channel of the task that has
\* been sent counters has been sent the current ones
C18_SnapshotAfterEveryChange ==
  \A t \in Created : \A j \in 1..Len(attempts[t]) : ~attempts[t][j].stale

\* C20: when no publish for the task is under way, no websocket whose last
\* send raised is registered for the task
C20_FailedChannelPruned ==
  \A t \in Created : \A w \in DOMAIN channel :
    (Registered(w, t) /\ channel[w].last = SendFailed) =>
      loops[t].pc \in {"notify", "final_notify"}

\* C19: once the loop of a task has left its for loop, on whatever path, the
\* task is not in active_tasks, and the last message the loop sends carries
\* the status the Task Store holds
C19_RegistryClearedOnExit ==
  \A t \in Created :
    /\ Exited(t) => t \notin DOMAIN active_tasks
    /\ loops[t].pc = "final_notify" => loops[t].progress_data.status = tasks[t].status


\* ------------------------------------------------------------------- C21
\* the pages of a listing with limit L: offsets 0, L, 2L, ...
PageOffsets(L) == {o \in 0..MaxOffset : o % L = 0}

\* C21: with no task created in between, list(limit = L, offset = O) over T
\* matching tasks returns min(L, T - O) tasks (none if O >= T), newest
\* first, and the successive pages of a listing hold no task twice and
\* together hold every matching task, also when tasks share a created_at
C21_PaginationStable ==
  \A status \in StatusFilters, L \in 1..MaxLimit :
    LET T == Cardinality(Matching(State, status))
        page(O, order) == get_cache_tasks(State, status, L, O, order)
        orders == OrderBys(State, Matching(State, status))
    IN /\ \A O \in 0..MaxOffset, order \in orders :
            /\ Len(page(O, order)) = (IF O >= T THEN 0 ELSE Min(L, T - O))
            /\ \A a, b \in DOMAIN page(O, order) :
                 a < b => tasks[page(O, order)[a]].created_at >=
                          tasks[page(O, order)[b]].created_at
       /\ \A O1, O2 \in PageOffsets(L), o1, o2 \in orders :
            O1 # O2 => Range(page(O1, o1)) \cap Range(page(O2, o2)) = {}
       /\ \A pick \in [PageOffsets(L) -> orders] :
            T <= MaxOffset + L =>
              UNION {Range(page(O, pick[O])) : O \in PageOffsets(L)} =
                Matching(State, status)

\* ------------------------------------------------------------------- C22
\* C22: the total of a list response is the number of all tasks that match
\* the status filter, whatever limit and offset are
C22_TotalCountsAllMatching ==
  \A status \in StatusFilters, L \in 1..MaxLimit, O \in 0..MaxOffset :
    \A order \in OrderBys(State, Matching(State, status)) :
      api_get_cache_tasks(State, status, L, O, order).total =
        Cardinality(Matching(State, status))
\* ------------------------------------------------------------------- C23
\* C23: download answers with an export only for a task whose status is
\* completed; for an unknown task id and for a task that is pending,
\* running, failed or cancelled it fails with no chapter in its answer.
\* The handler only reads: its answer is a function of the state
C23_DownloadOnlyCompleted ==
  \A t \in TaskIds, fmt \in Formats :
    /\ download_cached_novel(State, t, fmt).code = 200 =>
         (t \in Created /\ tasks[t].status = "completed")
    /\ (t \notin Created \/ tasks[t].status # "completed") =>
         /\ download_cached_novel(State, t, fmt).code >= 400
         /\ download_cached_novel(State, t, fmt).chapters = <<>>

\* a failed task with a stored chapter, whose download fails
C23_Witness ==
  \E t \in Created :
    /\ tasks[t].status = "failed"
    /\ RowsOf(t) # {}
    /\ download_cached_novel(State, t, "json").code = 404

\* ------------------------------------------------------------------- C24
\* C24: a download with a format other than json and txt is rejected with
\* HTTP 400 whatever the state of the task
C24_BadFormatRejected ==
  \A t \in Created : download_cached_novel(State, t, "xml").code = 400
\* ------------------------------------------------------------------- C25
\* C25: an exception raised in the loop outside the handling of a chapter
\* is caught in the loop, which ends; the task then has status failed and
\* its error_message set; and error_message is set only on a failed task
C25_OuterExceptionMarksFailed ==
  \A t \in Created :
    /\ loops[t].raised =>
         /\ Exited(t)
         /\ tasks[t].status = "failed"
         /\ tasks[t].error_message
    /\ tasks[t].error_message => tasks[t].status = "failed"
\* ------------------------------------------------------------------- C26
\* the tasks of a novel url whose coroutine has not left its for loop yet
LiveLoops(url) ==
  {t \in Created : tasks[t].novel_url = url /\ ~Exited(t)}

\* C26: for every novel url at most one fetch loop is live and at most one
\* task is pending or running, whatever the interleaving of create, cancel
\* and the loops
C26_OneLoopPerUrl ==
  \A url \in Urls :
    /\ Cardinality(LiveLoops(url)) <= 1
    /\ Cardinality(ActiveFor(url)) <= 1
\* ------------------------------------------------------------------- C27
\* C27: for a completed task get_chapters and download return one chapter
\* for each chapter cached_chapters counts, the chapters the loop skipped
\* because an earlier task had stored them included.  Stated for the tasks
\* whose loop stored or skipped every chapter it handled and was never
\* cancelled, so that cached_chapters counts stored and skipped chapters only
C27_ExportHoldsCountedChapters ==
  \A t \in Created :
    (/\ tasks[t].status = "completed"
     /\ cancel_log[t] = "never"
     /\ \A j \in 1..Len(attempts[t]) : attempts[t][j].kind \in {"ok", "skip"}) =>
      /\ Len(get_cached_chapters(State, t)) = tasks[t].cached_chapters
      /\ Len(download_cached_novel(State, t, "json").chapters) = tasks[t].cached_chapters
\* ------------------------------------------------------------------- C28
\* C28: when a publish of the loop ends, every channel that was registered
\* for the task from its beginning to its end, and whose send did not
\* raise, has been sent the snapshot of this publish, also when other
\* channels subscribed or unsubscribed between its sends
C28_PublishReachesRegistered ==
  [][\A t \in Created :
       (loops[t].pc \in {"notify", "final_notify"}
          /\ loops'[t].pc \notin {"notify", "final_notify"}) =>
         \A w \in Range(loops[t].audience) :
           (Registered(w, t) /\ channel[w].state = "open"
              /\ channel'[w].last # SendFailed) =>
             channel'[w].last = loops[t].progress_data]_vars
\* ------------------------------------------------------------------- C29
\* the calls of get_chapter_content among the chapters q a loop has handled
Fetches(q) == Cardinality({j \in DOMAIN q : q[j].kind \in {"ok", "raise", "empty"}})

\* C29: between two consecutive calls of get_chapter_content of a task the
\* loop sleeps, whether the first call returned content, raised or
\* returned nothing: the loop makes at most one call between two
\* suspensions, and it reaches the next call through the sleep
C29_DelayBetweenFetches ==
  [][\A t \in Created :
       /\ Fetches(attempts'[t]) <= Fetches(attempts[t]) + 1
       /\ (Fetches(attempts[t]) > 0 /\ Fetches(attempts'[t]) > Fetches(attempts[t])) =>
            loops[t].pc = "sleep"]_vars
\* ------------------------------------------------------------------- C30
\* C30: a chapter for which get_chapter_content returns empty content is
\* not stored, is counted by neither counter (failed_chapters counts the
\* chapters that raised, cached_chapters is 0 or the position of a stored
\* or skipped chapter), causes no publish (a publish under way is that of
\* a stored or skipped chapter), and the loop goes on in the same run to the
\* next chapter, or to its end after the last chapter
C30_EmptyContentIgnored ==
  \A t \in Created :
    /\ tasks[t].failed_chapters = CountKind(t, {"raise"})
    /\ \A j \in 1..Len(attempts[t]) :
         attempts[t][j].kind = "empty" =>
           /\ \A c \in RowsOf(t) : c.chapter_index # j - 1
           /\ tasks[t].cached_chapters # j
           /\ j = Len(attempts[t]) => (j = loops[t].chapters /\ Exited(t))
    /\ loops[t].pc = "notify" =>
         /\ loops[t].i = Len(attempts[t]) - 1
         /\ attempts[t][Len(attempts[t])].kind \in {"ok", "skip"}

\* a task that was never cancelled has completed with chapter 0 stored and
\* chapter 1, which had no content, in neither counter
C30_Witness ==
  \E t \in Created :
    /\ tasks[t].status = "completed"
    /\ loops[t].pc = "done"
    /\ cancel_log[t] = "never"
    /\ Len(attempts[t]) = 2
    /\ attempts[t][1].kind = "ok"
    /\ attempts[t][2].kind = "empty"
    /\ tasks[t].total_chapters = 2
    /\ tasks[t].cached_chapters = 1
    /\ tasks[t].failed_chapters = 0
====
